---------------------------- MODULE Spec2Model ----------------------------
(***************************************************************************)
(* A model of the playlist checker: check_m3u.py (parse_m3u, check_url,   *)
(* main) and hls_checker_pro.py (fetch_playlist, check_stream, main).      *)
(*                                                                         *)
(* Text is modelled as a sequence of tokens.  A token is a piece of text   *)
(* that the programs never look inside (a word, a host name, a marker such *)
(* as |Referer=), so that strip, startswith, split and the regular         *)
(* expressions of the source are computed on the sequence the way the      *)
(* source computes them on the characters.                                 *)
(***************************************************************************)
EXTENDS Integers, Sequences, FiniteSets, TLC

(***************************************************************************)
(* Bounds of the model.                                                    *)
(***************************************************************************)
\* lines of playlist text fed to the parser, one per step
MaxLines == 3
\* lines of the playlists a whole run is started on
MaxRunLines == 2
\* largest worker pool a run is configured with
MaxWorkers == 2

(***************************************************************************)
(* Python values.                                                          *)
(***************************************************************************)
\* Python's None, where a text is expected
None == <<"<None>">>
\* a key that is not in a dict
Missing == <<"<no key>">>

REFERER == "|Referer="
USER_AGENT == "|User-Agent="

Progs == {"check_m3u", "hls_checker_pro"}

(***************************************************************************)
(* str methods on token sequences.                                         *)
(***************************************************************************)
IsSpace(t) == t = " "

RECURSIVE lstrip(_)
lstrip(s) == IF s # <<>> /\ IsSpace(Head(s)) THEN lstrip(Tail(s)) ELSE s

RECURSIVE rstrip(_)
rstrip(s) ==
    IF s # <<>> /\ IsSpace(s[Len(s)]) THEN rstrip(SubSeq(s, 1, Len(s) - 1)) ELSE s

\* str.strip()
strip(s) == rstrip(lstrip(s))

\* sep in s
Contains(s, sep) == \E i \in 1..Len(s) : s[i] = sep

\* the index of the first occurrence of sep in s (sep in s)
Find(s, sep) == CHOOSE i \in 1..Len(s) : s[i] = sep /\ \A j \in 1..(i - 1) : s[j] # sep

\* s.split(sep, 1) of a text that contains sep: the two parts
SplitOnce(s, sep) ==
    LET i == Find(s, sep) IN <<SubSeq(s, 1, i - 1), SubSeq(s, i + 1, Len(s))>>

\* the number of occurrences of sep in s: s.split(sep) has one more part
Count(s, sep) == Cardinality({i \in 1..Len(s) : s[i] = sep})

\* line.startswith("#"): the tokens that begin with the character #
HashTokens == {"#EXTINF", "#EXTM3U", "#"}
StartsWithHash(s) == s # <<>> /\ s[1] \in HashTokens

\* line.startswith("#EXTINF:")
StartsWithExtinfColon(s) == Len(s) >= 2 /\ s[1] = "#EXTINF" /\ s[2] = ":"

\* line.startswith("#EXTINF")
StartsWithExtinf(s) == s # <<>> /\ s[1] = "#EXTINF"

\* line.startswith("http"): the tokens that begin with the characters http
HttpTokens == {"http:", "https:", "httpfoo"}
StartsWithHttp(s) == s # <<>> /\ s[1] \in HttpTokens

(***************************************************************************)
(* urllib.parse.urlparse, as far as parse_m3u reads its result: whether    *)
(* the scheme and the netloc are non-empty, and whether it raises.         *)
(***************************************************************************)
\* a scheme and its colon at the start of the text
SchemeTokens == {"http:", "https:", "rtmp:"}
\* the characters that end a netloc
NetlocEnd == {"/x", "?q"}

UrlScheme(u) == IF u # <<>> /\ u[1] \in SchemeTokens THEN <<u[1]>> ELSE <<>>

UrlAfterScheme(u) == IF UrlScheme(u) # <<>> THEN Tail(u) ELSE u

RECURSIVE UpToNetlocEnd(_)
UpToNetlocEnd(s) ==
    IF s = <<>> \/ Head(s) \in NetlocEnd THEN <<>>
    ELSE <<Head(s)>> \o UpToNetlocEnd(Tail(s))

UrlNetloc(u) ==
    LET rest == UrlAfterScheme(u) IN
    IF rest # <<>> /\ rest[1] = "//" THEN UpToNetlocEnd(Tail(rest)) ELSE <<>>

\* urlparse raises ValueError("Invalid IPv6 URL"): a [ without its ] in the netloc
UrlparseRaises(u) == Contains(UrlNetloc(u), "[bad")


(***************************************************************************)
(* parse_m3u: the #EXTINF branch.                                          *)
(***************************************************************************)
\* the tokens -?\d+ matches
DurationTokens == {"-1", "0"}

\* a whole key="value" attribute that holds no comma, and its value
LogoAttrs == {"tvg-logo=\"l\""}
GroupAttrs == {"group-title=\"G\""}
AttrValue(t) ==
    CASE t = "tvg-logo=\"l\"" -> <<"l">>
      [] t = "group-title=\"G\"" -> <<"G">>
      [] OTHER -> <<>>

\* re.search(r'#EXTINF:-?\d+\s*(.*?)(?:,(.+))?$', line) finds a match
ExtinfMatches(line) == Len(line) >= 3 /\ line[3] \in DurationTokens

\* what follows -?\d+\s* in the line
ExtinfRest(line) == lstrip(SubSeq(line, 4, Len(line)))

\* (?:,(.+))? takes part: a comma that some text follows
ExtinfHasName(line) ==
    \E k \in 1..(Len(ExtinfRest(line)) - 1) : ExtinfRest(line)[k] = ","

\* match.group(1) or "": (.*?) is lazy, it ends before the first comma
ExtinfAttributes(line) ==
    IF ExtinfHasName(line) THEN SplitOnce(ExtinfRest(line), ",")[1]
    ELSE ExtinfRest(line)

\* match.group(2) or "Unknown"
ExtinfName(line) ==
    IF ExtinfHasName(line) THEN SplitOnce(ExtinfRest(line), ",")[2]
    ELSE <<"Unknown">>

\* re.search(r'key="([^"]*)"', attributes): group(1) of the first match, else "N/A"
AttrSearch(attributes, keyAttrs) ==
    IF \E i \in 1..Len(attributes) : attributes[i] \in keyAttrs
    THEN LET i == CHOOSE i \in 1..Len(attributes) :
                    /\ attributes[i] \in keyAttrs
                    /\ \A j \in 1..(i - 1) : attributes[j] \notin keyAttrs
         IN AttrValue(attributes[i])
    ELSE <<"N/A">>

\* lines 36-49: the accumulator after an #EXTINF: line
extinf_line(current_stream, line) ==
    IF ExtinfMatches(line)
    THEN [current_stream EXCEPT
            !.name = strip(ExtinfName(line)),
            !.logo = AttrSearch(ExtinfAttributes(line), LogoAttrs),
            !.group = AttrSearch(ExtinfAttributes(line), GroupAttrs)]
    ELSE current_stream

(***************************************************************************)
(* parse_m3u: the URL branch.                                              *)
(***************************************************************************)
\* current_stream = {}
EmptyStream ==
    [name |-> Missing, logo |-> Missing, group |-> Missing,
     url |-> Missing, referer |-> Missing, user_agent |-> Missing]

\* lines 55-57
WithUrl(cs, line) == [cs EXCEPT !.url = line, !.referer = None, !.user_agent = None]

\* lines 60-61
WithReferer(cs, line) ==
    IF Contains(line, REFERER)
    THEN [cs EXCEPT !.url = SplitOnce(line, REFERER)[1],
                    !.referer = SplitOnce(line, REFERER)[2]]
    ELSE cs

\* lines 62-64
WithUserAgent(cs) ==
    IF Contains(cs.url, USER_AGENT)
    THEN [cs EXCEPT !.url = SplitOnce(cs.url, USER_AGENT)[1],
                    !.user_agent = SplitOnce(cs.url, USER_AGENT)[2]]
    ELSE cs

\* lines 55-64: the accumulator with the URL line taken in
UrlFields(cs, line) == WithUserAgent(WithReferer(WithUrl(cs, line), line))

\* line 68: not parsed_url.scheme or not parsed_url.netloc
InvalidUrl(u) == UrlScheme(u) = <<>> \/ UrlNetloc(u) = <<>>

\* the URL branch without the continue of line 71: the emptied accumulator is
\* appended
url_line_no_continue(st, line) ==
    LET cs == UrlFields(st.current_stream, line) IN
    IF UrlparseRaises(cs.url)
    THEN [st EXCEPT !.current_stream = EmptyStream,
                    !.warnings = Append(@, "Failed to parse URL line")]
    ELSE IF InvalidUrl(cs.url)
    THEN [st EXCEPT !.streams = Append(@, EmptyStream),
                    !.current_stream = EmptyStream,
                    !.warnings = Append(@, "Invalid URL skipped")]
    ELSE [st EXCEPT !.streams = Append(@, cs),
                    !.current_stream = EmptyStream]

\* lines 53-76: the parser state after a URL line
url_line(st, line) ==
    LET cs == UrlFields(st.current_stream, line) IN
    IF UrlparseRaises(cs.url)
    THEN [st EXCEPT !.current_stream = EmptyStream,
                    !.warnings = Append(@, "Failed to parse URL line")]
    ELSE IF InvalidUrl(cs.url)
    THEN [st EXCEPT !.current_stream = EmptyStream,
                    !.warnings = Append(@, "Invalid URL skipped")]
    ELSE [st EXCEPT !.streams = Append(@, cs),
                    !.current_stream = EmptyStream]

\* the loop body with a line that starts with # and is no #EXTINF: line taken as
\* the end of a record: it empties the accumulator
m3u_line_comment_resets(st, raw) ==
    LET line == strip(raw) IN
    IF line = <<>> THEN st
    ELSE IF StartsWithExtinfColon(line)
    THEN [st EXCEPT !.current_stream = extinf_line(@, line)]
    ELSE IF ~StartsWithHash(line) THEN url_line(st, line)
    ELSE [st EXCEPT !.current_stream = EmptyStream]

\* lines 31-76: one turn of the loop over the lines
m3u_line(st, raw) ==
    LET line == strip(raw) IN
    IF line = <<>> THEN st
    ELSE IF StartsWithExtinfColon(line)
    THEN [st EXCEPT !.current_stream = extinf_line(@, line)]
    ELSE IF ~StartsWithHash(line) THEN url_line(st, line)
    ELSE st

\* lines 27-29: the parser state before the first line
M3uStart == [streams |-> <<>>, current_stream |-> EmptyStream, warnings |-> <<>>]

RECURSIVE m3u_lines(_, _)
m3u_lines(st, content) ==
    IF content = <<>> THEN st
    ELSE m3u_lines(m3u_line(st, Head(content)), Tail(content))

\* parse_m3u(content): the parser state when the loop ends
parse_m3u(content) == m3u_lines(M3uStart, content)

(***************************************************************************)
(* hls_checker_pro.py: the loop of fetch_playlist.                         *)
(***************************************************************************)
\* one turn of the loop over the lines
hls_line(st, raw) ==
    LET line == strip(raw) IN
    IF line = <<>> THEN st
    ELSE IF StartsWithExtinf(line) THEN [st EXCEPT !.current_info = line]
    ELSE IF StartsWithHttp(line)
    THEN [st EXCEPT !.entries = Append(@, [info |-> st.current_info, url |-> line]),
                    !.current_info = None]
    ELSE st

HlsStart == [entries |-> <<>>, current_info |-> None]

RECURSIVE hls_lines(_, _)
hls_lines(st, content) ==
    IF content = <<>> THEN st
    ELSE hls_lines(hls_line(st, Head(content)), Tail(content))

\* the entries fetch_playlist returns for the text it fetched
fetch_playlist(content) == hls_lines(HlsStart, content)

(***************************************************************************)
(* The transport (requests.get with stream=True) as the probes see it.     *)
(***************************************************************************)
\* the Content-Type header of a response; "" when the server sends none
ContentTypes ==
    {"application/vnd.apple.mpegurl", "application/x-mpegurl",
     "Application/X-MPEGURL", "application/vnd.apple.mpegurl; charset=utf-8",
     "audio/mpegurl", "video/mp2t", "text/html", ""}

\* str.lower() of a Content-Type
Lower(ct) == IF ct = "Application/X-MPEGURL" THEN "application/x-mpegurl" ELSE ct

\* "mpegurl" in ct
HasMpegurl(ct) ==
    ct \in {"application/vnd.apple.mpegurl", "application/x-mpegurl",
            "application/vnd.apple.mpegurl; charset=utf-8", "audio/mpegurl"}

\* "video" in ct
HasVideo(ct) == ct = "video/mp2t"

\* the number of characters of a token of a body
TokenLen(t) ==
    CASE t = "#EXTM3U" -> 7
      [] t = "seg" -> 3
      [] t = ".ts" -> 3
      [] t = "PAD1000" -> 1000
      [] t = "PAD1024" -> 1024
      [] OTHER -> 1

RECURSIVE TextLen(_)
TextLen(s) == IF s = <<>> THEN 0 ELSE TokenLen(Head(s)) + TextLen(Tail(s))

\* what is left of a token that a slice cuts through
CutToken(t) ==
    CASE t = "seg" -> "se"
      [] t = ".ts" -> ".t"
      [] t = "#EXTM3U" -> "#EXT"
      [] OTHER -> t

\* text[:n]
RECURSIVE Slice(_, _)
Slice(s, n) ==
    IF s = <<>> \/ n <= 0 THEN <<>>
    ELSE IF TokenLen(Head(s)) <= n
    THEN <<Head(s)>> \o Slice(Tail(s), n - TokenLen(Head(s)))
    ELSE <<CutToken(Head(s))>>

\* the tokens that begin with a character \w matches
WordTokens == {"seg", "se", "x"}

\* len(re.findall(r'\.ts\b', content))
CountTs(content) ==
    Cardinality({i \in 1..Len(content) :
        /\ content[i] = ".ts"
        /\ (i = Len(content) \/ content[i + 1] \notin WordTokens)})

\* the bodies the servers send: the text, or for a body that never ends its start
BodyOneSegment == <<"#EXTM3U", "\n", "seg", ".ts", "\n">>
BodyNoSegment == <<"#EXTM3U", "\n">>
BodyNoMagic == <<"seg", ".ts", "\n">>
BodyLateSegment == <<"#EXTM3U", "\n", "PAD1024", "seg", ".ts", "\n">>
BodyTsx == <<"#EXTM3U", "\n", "seg", ".ts", "x">>
BodyLeadingBlank == <<"\n", "#EXTM3U", "\n", "seg", ".ts">>
BodyThreeSegments ==
    <<"#EXTM3U", "\n", "PAD1000",
      "seg", ".ts", "\n", "seg", ".ts", "\n", "seg", ".ts", "\n">>
BodyEmpty == <<>>
Bodies ==
    {BodyOneSegment, BodyNoSegment, BodyNoMagic, BodyLateSegment, BodyTsx,
     BodyLeadingBlank, BodyThreeSegments, BodyEmpty}

\* how a body ends: the server closes it, the read fails (timeout, reset), or the
\* server never stops sending
Endings == {"eof", "error", "endless"}

\* no response yet
NoResponse ==
    [kind |-> "none", status_code |-> 0, content_type |-> "", body |-> <<>>,
     ending |-> "eof"]

\* requests.get raises a requests.RequestException
RequestFailed ==
    [kind |-> "RequestException", status_code |-> 0, content_type |-> "",
     body |-> <<>>, ending |-> "eof"]

\* requests.get raises UnicodeEncodeError: a header value outside latin-1
EncodeFailed ==
    [kind |-> "UnicodeEncodeError", status_code |-> 0, content_type |-> "",
     body |-> <<>>, ending |-> "eof"]

\* requests.get returns a response
Answer(code, ct, body, ending) ==
    [kind |-> "response", status_code |-> code, content_type |-> ct,
     body |-> body, ending |-> ending]

\* every response the model lets a server give
Responses ==
    {Answer(200, ct, b, e) : ct \in ContentTypes, b \in Bodies, e \in Endings}
        \cup {Answer(404, "text/html", BodyEmpty, "eof")}

\* the responses of the runs over several entries
RunResponses ==
    {Answer(200, "application/vnd.apple.mpegurl", BodyOneSegment, "eof"),
     Answer(200, "video/mp2t", BodyEmpty, "endless"),
     Answer(404, "text/html", BodyEmpty, "eof")}

\* a header value http.client can encode
Latin1(value) == ~Contains(value, "U+0995")

\* requests can send a request to the URL: an http(s) URL with a host
Requestable(url) == UrlScheme(url) \in {<<"http:">>, <<"https:">>} /\ UrlNetloc(url) # <<>>

\* what requests.get(url, headers=headers, stream=True) may do, among answers
Outcomes(url, headers, answers) ==
    IF ~Requestable(url) THEN {RequestFailed}
    ELSE IF \E h \in DOMAIN headers : ~Latin1(headers[h])
    THEN {RequestFailed, EncodeFailed}
    ELSE {RequestFailed} \cup answers

(***************************************************************************)
(* check_m3u.py: check_url.                                                *)
(***************************************************************************)
\* response.text[:1024]
PrefixLen == 1024

\* default_headers
DefaultHeaders == ("User-Agent" :> <<"Mozilla/5.0">>)

\* a value an if takes as true: a key that is there, not None, not ""
Truthy(v) == v \notin {Missing, None, <<>>}

\* lines 82-86
check_url_headers(stream) ==
    LET withReferer ==
            IF Truthy(stream.referer)
            THEN ("Referer" :> stream.referer) @@ DefaultHeaders
            ELSE DefaultHeaders
    IN IF Truthy(stream.user_agent)
       THEN ("User-Agent" :> stream.user_agent) @@ withReferer
       ELSE withReferer

\* stream.get(key, default)
Get(value, default) == IF value = Missing THEN default ELSE value

\* the error of a result that has none
NoError == "<None>"

\* the status text: its label, then the HTTP status and the segment count where the
\* text holds them (<<>> where it does not)
StatusText(label, http, segments) ==
    [label |-> label, http |-> http, segments |-> segments]

\* the dict check_url returns, with stream["name"] for stream.get("name", "Unknown")
\* and the like
Result_without_defaults(stream, status, error) ==
    [channel |-> stream.name,
     url |-> stream.url,
     status |-> status,
     group |-> stream.group,
     logo |-> stream.logo,
     error |-> error]

\* the dict check_url returns
Result(stream, status, error) ==
    [channel |-> Get(stream.name, <<"Unknown">>),
     url |-> stream.url,
     status |-> status,
     group |-> Get(stream.group, <<"N/A">>),
     logo |-> Get(stream.logo, <<"N/A">>),
     error |-> error]

\* lines 90-98: "Down (Status: <code>)"
http_error_result(stream, code) ==
    Result(stream, StatusText("Down", <<code>>, <<>>), NoError)

\* line 103 with and for or
is_m3u8_both(content_type, content) ==
    /\ content_type \in {"application/x-mpegurl", "application/vnd.apple.mpegurl"}
    /\ (content # <<>> /\ content[1] = "#EXTM3U")

\* line 103
is_m3u8(content_type, content) ==
    \/ content_type \in {"application/x-mpegurl", "application/vnd.apple.mpegurl"}
    \/ (content # <<>> /\ content[1] = "#EXTM3U")

\* line 104
segment_count(m3u8, content) == IF m3u8 THEN CountTs(content) ELSE 0

\* line 106
status_label(m3u8, count) ==
    IF m3u8 /\ count > 0 THEN "Live"
    ELSE IF m3u8 THEN "Live (No segments)"
    ELSE "Live (Not M3U8)"

\* lines 101-114: the result for a 200 response whose body was read
live_result(stream, response) ==
    LET content_type == Lower(response.content_type)
        content == Slice(response.body, PrefixLen)
        m3u8 == is_m3u8(content_type, content)
        count == segment_count(m3u8, content)
    IN Result(stream, StatusText(status_label(m3u8, count), <<>>, <<count>>), NoError)

\* lines 116-124 with "error": None
exception_result_without_error(stream, message) ==
    Result(stream, StatusText("Down", <<>>, <<>>), NoError)

\* lines 116-124: str(e) of the RequestException caught
exception_result(stream, message) ==
    Result(stream, StatusText("Down", <<>>, <<>>), message)

(***************************************************************************)
(* hls_checker_pro.py: check_stream.                                       *)
(***************************************************************************)
\* line 28: url.split("|Referer=") gives more than two parts, the unpacking raises
\* ValueError
split_raises(line) == Count(line, REFERER) >= 2

\* lines 27-28: url
stream_url(line) == IF Contains(line, REFERER) THEN SplitOnce(line, REFERER)[1] ELSE line

\* lines 26-29: headers
stream_headers(line) ==
    IF Contains(line, REFERER)
    THEN ("Referer" :> strip(SplitOnce(line, REFERER)[2]))
    ELSE <<>>

\* headers.get("Referer", "")
referer_of(headers) == IF "Referer" \in DOMAIN headers THEN headers["Referer"] ELSE <<>>

\* lines 32-33: the response counts as live
stream_ok(response) ==
    /\ response.kind = "response"
    /\ response.status_code = 200
    /\ (HasMpegurl(Lower(response.content_type)) \/ HasVideo(Lower(response.content_type)))

\* lines 34-37: the tuple check_stream returns
stream_result(entry, response) ==
    [info |-> entry.info,
     url |-> stream_url(entry.url),
     referer |-> referer_of(stream_headers(entry.url)),
     ok |-> stream_ok(response)]

(***************************************************************************)
(* The lines of playlist text the parsers are run on.                      *)
(***************************************************************************)
UrlPlain == <<"http:", "//", "a", "/x">>
UrlReferer == <<"http:", "//", "a", "/x", REFERER, "r">>
UrlAgentReferer == <<"http:", "//", "a", "/x", USER_AGENT, "ua", REFERER, "r">>
UrlRefererAgent == <<"http:", "//", "a", "/x", REFERER, "r", USER_AGENT, "ua">>
UrlEmptyReferer == <<"http:", "//", "a", "/x", REFERER>>
UrlSpaceReferer == <<"http:", "//", "a", "/x", REFERER, " ", "r">>
UrlTwoReferers == <<"http:", "//", "a", "/x", REFERER, "r", REFERER, "r2">>
\* a referer with a character outside latin-1
UrlWideReferer == <<"http:", "//", "a", "/x", REFERER, "U+0995">>
UrlPadded == <<" ", "http:", "//", "b", "/x", " ">>
UrlRtmp == <<"rtmp:", "//", "a", "/x">>
UrlNoScheme == <<"a", "/x">>
UrlNoHost == <<"http:", "/x">>
UrlHttpWord == <<"httpfoo">>
UrlBadBracket == <<"http:", "//", "[bad">>
UrlRefererNoHost == <<"http:", "//", REFERER, "r">>

ExtinfFull ==
    <<"#EXTINF", ":", "-1", " ", "tvg-logo=\"l\"", " ", "group-title=\"G\"", ",", "Chan1">>
ExtinfPlain == <<"#EXTINF", ":", "-1", ",", "X">>
ExtinfNoName == <<"#EXTINF", ":", "0">>
ExtinfNoDuration == <<"#EXTINF", ":", "abc", ",", "N">>
\* group-title="A,B" : the comma is a token of its own
ExtinfCommaGroup ==
    <<"#EXTINF", ":", "-1", " ", "group-title=\"A", ",", "B\"", ",", "Chan2">>
Header == <<"#EXTM3U">>
Blank == <<" ">>

\* the URL lines whose URL has a scheme and a host, and those whose URL has not
ValidUrlLines ==
    {UrlPlain, UrlReferer, UrlAgentReferer, UrlRefererAgent, UrlEmptyReferer,
     UrlSpaceReferer, UrlTwoReferers, UrlWideReferer, UrlPadded, UrlRtmp}
InvalidUrlLines ==
    {UrlNoScheme, UrlNoHost, UrlHttpWord, UrlBadBracket, UrlRefererNoHost}
OtherLines ==
    {ExtinfFull, ExtinfPlain, ExtinfNoName, ExtinfNoDuration, ExtinfCommaGroup,
     Header, Blank}

\* the lines the parsers are fed
Lines == ValidUrlLines \cup InvalidUrlLines \cup OtherLines

(***************************************************************************)
(* The state.                                                              *)
(***************************************************************************)
VARIABLES
    prog,            \* the script that runs
    playlist,        \* main: what the request for the playlist gave
    input,           \* the lines of the playlist text read so far
    streams,         \* parse_m3u: the entries emitted
    current_stream,  \* parse_m3u: the pending metadata
    warnings,        \* the logger's warnings
    entries,         \* fetch_playlist: the entries emitted
    current_info,    \* fetch_playlist: the pending #EXTINF line
    pc,              \* main: where it is
    max_workers,     \* the size of the ThreadPoolExecutor
    tasks,           \* the futures, in the order of their submission
    completion,      \* the tasks whose future is done, in the order they got done
    results,         \* main: the results collected
    collected,       \* the task each collected result came from
    report,          \* the report file(s) main writes: not written, or their rows
    live_links,      \* live_links.m3u: not written, or its lines after #EXTM3U
    progress         \* the i of every "Checked i/n" line logged, in order

parseVars ==
    <<playlist, input, streams, current_stream, warnings, entries, current_info>>
runVars ==
    <<pc, max_workers, tasks, completion, results, collected, report, live_links,
      progress>>
vars == <<prog, parseVars, runVars>>

\* the state of parse_m3u, as the operators above take it
M3uState ==
    [streams |-> streams, current_stream |-> current_stream, warnings |-> warnings]
HlsState == [entries |-> entries, current_info |-> current_info]

\* the request for the playlist: not made yet, raised a RequestException, or
\* answered with a status
NotFetched == [kind |-> "none", status_code |-> 0]
FetchRaised == [kind |-> "RequestException", status_code |-> 0]
Fetched(code) == [kind |-> "response", status_code |-> code]

ParserStart ==
    /\ playlist = NotFetched
    /\ input = <<>>
    /\ streams = <<>>
    /\ current_stream = EmptyStream
    /\ warnings = <<>>
    /\ entries = <<>>
    /\ current_info = None

(***************************************************************************)
(* The parsers, a line at a time.                                          *)
(***************************************************************************)
\* a file that was not written, and a file written with its content
NotWritten == <<>>
Written(content) == <<content>>

\* main has not started
MainStart ==
    /\ pc = "start"
    /\ tasks = <<>>
    /\ completion = <<>>
    /\ results = <<>>
    /\ collected = <<>>
    /\ report = NotWritten
    /\ live_links = NotWritten
    /\ progress = <<>>

ParseInit ==
    /\ prog \in Progs
    /\ ParserStart
    /\ MainStart
    /\ max_workers = 1

\* parse_m3u reads one more line
M3uParseLine(raw) ==
    /\ prog = "check_m3u"
    /\ Len(input) < MaxLines
    /\ input' = Append(input, raw)
    /\ streams' = m3u_line(M3uState, raw).streams
    /\ current_stream' = m3u_line(M3uState, raw).current_stream
    /\ warnings' = m3u_line(M3uState, raw).warnings
    /\ UNCHANGED <<prog, playlist, entries, current_info, runVars>>

\* fetch_playlist reads one more line
HlsParseLine(raw) ==
    /\ prog = "hls_checker_pro"
    /\ Len(input) < MaxLines
    /\ input' = Append(input, raw)
    /\ entries' = hls_line(HlsState, raw).entries
    /\ current_info' = hls_line(HlsState, raw).current_info
    /\ UNCHANGED <<prog, playlist, streams, current_stream, warnings, runVars>>

ParseNext ==
    \/ \E raw \in Lines : M3uParseLine(raw)
    \/ \E raw \in Lines : HlsParseLine(raw)

ParseSpec == ParseInit /\ [][ParseNext]_vars

(***************************************************************************)
(* main: the playlist is fetched and parsed.                               *)
(***************************************************************************)
\* the entries main hands to the pool
NumEntries == IF prog = "check_m3u" THEN Len(streams) ELSE Len(entries)

\* a future that was just submitted
\* (consumed: the bytes of the body read, counted up to MaxRead; reads: the
\* parity of the number of reads of a body that never ends)
NewTask ==
    [state |-> "pending", response |-> NoResponse, consumed |-> 0, reads |-> 0,
     result |-> <<>>, raised |-> ""]

\* the statuses a server answers the request for the playlist with: 200, another
\* status below 400, a status from 400 on
PlaylistStatuses == {200, 203, 404}

\* r.raise_for_status() raises requests.HTTPError: a 4xx or 5xx status
raise_for_status(code) == code >= 400 /\ code < 600

\* check_m3u.py lines 130-140: the playlist arrives with status 200 and is parsed
M3uFetchPlaylist(content) ==
    /\ prog = "check_m3u"
    /\ pc = "start"
    /\ playlist' = Fetched(200)
    /\ input' = content
    /\ streams' = parse_m3u(content).streams
    /\ current_stream' = parse_m3u(content).current_stream
    /\ warnings' = parse_m3u(content).warnings
    /\ pc' = IF parse_m3u(content).streams = <<>> THEN "done" ELSE "submit"
    /\ UNCHANGED <<prog, entries, current_info, max_workers, tasks, completion,
                   results, collected, report, live_links, progress>>

\* hls_checker_pro.py lines 9-22 and 41-43: the playlist arrives with a status
\* that raise_for_status lets pass
HlsFetchPlaylist(content, code) ==
    /\ prog = "hls_checker_pro"
    /\ pc = "start"
    /\ ~raise_for_status(code)
    /\ playlist' = Fetched(code)
    /\ input' = content
    /\ entries' = fetch_playlist(content).entries
    /\ current_info' = fetch_playlist(content).current_info
    /\ pc' = IF fetch_playlist(content).entries = <<>> THEN "write" ELSE "submit"
    /\ UNCHANGED <<prog, streams, current_stream, warnings, max_workers, tasks,
                   completion, results, collected, report, live_links, progress>>

\* the outcome of the request for the playlist ends main: check_m3u.py logs an
\* error and returns on a RequestException (lines 168-169) and on every status
\* but 200 (lines 131-133); in hls_checker_pro.py the exception of requests.get or
\* of raise_for_status (lines 9-10) leaves main
fetch_is_fatal(outcome) ==
    IF prog = "check_m3u"
    THEN outcome.kind = "RequestException" \/ outcome.status_code # 200
    ELSE outcome.kind = "RequestException" \/ raise_for_status(outcome.status_code)

FetchFails(outcome) ==
    /\ pc = "start"
    /\ fetch_is_fatal(outcome)
    /\ playlist' = outcome
    /\ pc' = "aborted"
    /\ UNCHANGED <<prog, input, streams, current_stream, warnings, entries,
                   current_info, max_workers, tasks, completion, results,
                   collected, report, live_links, progress>>

(***************************************************************************)
(* The ThreadPoolExecutor and the probes.                                  *)
(***************************************************************************)
\* executor.submit (check_m3u.py line 145; Executor.map, hls_checker_pro.py line 44)
Submit ==
    /\ pc = "submit"
    /\ tasks' = Append(tasks, NewTask)
    /\ pc' = IF Len(tasks) + 1 = NumEntries THEN "collect" ELSE "submit"
    /\ UNCHANGED <<prog, parseVars, max_workers, completion, results, collected,
                   report, live_links, progress>>

\* the probes a worker thread is running
InFlight == {i \in 1..Len(tasks) : tasks[i].state \in {"running", "reading"}}

\* a pool that starts a thread for every work item
WorkerAlwaysFree == TRUE

\* a worker thread is free to take a work item: the pool starts a thread only
\* while it has fewer than max_workers, and a thread runs one item at a time
WorkerFree == Cardinality(InFlight) < max_workers

\* the work queue is first in, first out
NextInQueue(i) ==
    /\ i \in 1..Len(tasks)
    /\ tasks[i].state = "pending"
    /\ \A j \in 1..(i - 1) : tasks[j].state # "pending"

\* the order in which the futures got done, after a step of task i
Completed(i, task) ==
    IF task.state = "finished" THEN Append(completion, i) ELSE completion

\* the future of task i is done, with a result or with the exception raised
Finish(task, result) == [task EXCEPT !.state = "finished", !.result = <<result>>]
Raise(task, exception) == [task EXCEPT !.state = "finished", !.raised = exception]

\* the URL and the headers of the request of task i
RequestUrl(i) ==
    IF prog = "check_m3u" THEN streams[i].url ELSE stream_url(entries[i].url)
RequestHeaders(i) ==
    IF prog = "check_m3u" THEN check_url_headers(streams[i])
    ELSE stream_headers(entries[i].url)

\* a worker takes task i and runs the probe up to its request
\* (check_m3u.py lines 82-89, hls_checker_pro.py lines 25-31)
StartProbe(i) ==
    /\ pc \in {"submit", "collect", "unwinding"}
    /\ NextInQueue(i)
    /\ WorkerFree
    /\ tasks' = [tasks EXCEPT ![i] =
            IF prog = "hls_checker_pro" /\ split_raises(entries[i].url)
            THEN Raise(@, "ValueError")
            ELSE [@ EXCEPT !.state = "running"]]
    /\ completion' = Completed(i, tasks'[i])
    /\ UNCHANGED <<prog, parseVars, pc, max_workers, results, collected, report,
                   live_links, progress>>

\* check_url from the return of requests.get to its next read or its return
\* (check_m3u.py lines 89-98 and 116-124)
check_url_response(stream, task, outcome) ==
    CASE outcome.kind = "RequestException" ->
            Finish(task, exception_result(stream, "request failed"))
      [] outcome.kind = "UnicodeEncodeError" -> Raise(task, "UnicodeEncodeError")
      [] outcome.status_code # 200 ->
            Finish(task, http_error_result(stream, outcome.status_code))
      [] OTHER -> [task EXCEPT !.state = "reading"]

\* requests.get returns or raises in the probe of task i
Respond(i, answers) ==
    /\ i \in 1..Len(tasks)
    /\ tasks[i].state = "running"
    /\ \E outcome \in Outcomes(RequestUrl(i), RequestHeaders(i), answers) :
        tasks' = [tasks EXCEPT ![i] =
            IF prog = "check_m3u"
            THEN check_url_response(streams[i], [@ EXCEPT !.response = outcome], outcome)
            ELSE Finish([@ EXCEPT !.response = outcome],
                        stream_result(entries[i], outcome))]
    /\ completion' = Completed(i, tasks'[i])
    /\ UNCHANGED <<prog, parseVars, pc, max_workers, results, collected, report,
                   live_links, progress>>

\* the bytes up to which the model counts what a probe reads of a body that never
\* ends
MaxRead == 2048

\* response.text (check_m3u.py line 102) reads the body to its end
read_body(stream, task) ==
    CASE task.response.ending = "eof" ->
            Finish([task EXCEPT !.consumed = TextLen(task.response.body)],
                   live_result(stream, task.response))
      [] task.response.ending = "error" ->
            Finish(task, exception_result(stream, "read failed"))
      [] OTHER ->
            [task EXCEPT !.consumed = IF @ < MaxRead THEN @ + PrefixLen ELSE @,
                         !.reads = 1 - @]

ReadBody(i) ==
    /\ i \in 1..Len(tasks)
    /\ tasks[i].state = "reading"
    /\ tasks' = [tasks EXCEPT ![i] = read_body(streams[i], @)]
    /\ completion' = Completed(i, tasks'[i])
    /\ UNCHANGED <<prog, parseVars, pc, max_workers, results, collected, report,
                   live_links, progress>>

(***************************************************************************)
(* main: the results are collected and the files written.                  *)
(***************************************************************************)
\* as_completed yields a future that is done, and yields no future twice
YieldsAny(i) == tasks[i].state = "finished"
Yields(i) ==
    /\ tasks[i].state = "finished"
    /\ \A k \in 1..Len(collected) : collected[k] # i

\* enumerate(..., 1) without its start
enumerate_from_0(yielded) == yielded

\* the i that enumerate(..., 1) gives after having yielded as many items
enumerate(yielded) == yielded + 1

\* the loop over as_completed (check_m3u.py lines 146-149) takes a done future,
\* appends its result and logs "Checked i/n"
CollectCompleted(i) ==
    /\ prog = "check_m3u"
    /\ pc = "collect"
    /\ i \in 1..Len(tasks)
    /\ Yields(i)
    /\ IF tasks[i].raised # ""
       THEN /\ pc' = "unwinding"
            /\ UNCHANGED <<results, collected, progress>>
       ELSE /\ results' = Append(results, tasks[i].result[1])
            /\ collected' = Append(collected, i)
            /\ progress' = Append(progress, enumerate(Len(progress)))
            /\ pc' = IF Len(results) + 1 = NumEntries THEN "write" ELSE "collect"
    /\ UNCHANGED <<prog, parseVars, max_workers, tasks, completion, report,
                   live_links>>

\* a pending future is cancelled
Cancel(task) == IF task.state = "pending" THEN [task EXCEPT !.state = "cancelled"] ELSE task

\* results taken in the order in which the probes complete
CollectInAnyOrder ==
    /\ prog = "hls_checker_pro"
    /\ pc = "collect"
    /\ \E i \in 1..Len(tasks) :
        /\ Yields(i)
        /\ IF tasks[i].raised # ""
           THEN /\ pc' = "unwinding"
                /\ tasks' = [j \in 1..Len(tasks) |-> Cancel(tasks[j])]
                /\ UNCHANGED <<results, collected>>
           ELSE /\ results' = Append(results, tasks[i].result[1])
                /\ collected' = Append(collected, i)
                /\ pc' = IF Len(results) + 1 = NumEntries THEN "write" ELSE "collect"
                /\ UNCHANGED tasks
    /\ UNCHANGED <<prog, parseVars, max_workers, completion, report, live_links,
                   progress>>

\* list(ex.map(...)) (hls_checker_pro.py line 44) takes the results in the order
\* of the entries; when one raises, the futures not yet started are cancelled
CollectInOrder ==
    /\ prog = "hls_checker_pro"
    /\ pc = "collect"
    /\ tasks[Len(results) + 1].state = "finished"
    /\ IF tasks[Len(results) + 1].raised # ""
       THEN /\ pc' = "unwinding"
            /\ tasks' = [i \in 1..Len(tasks) |-> Cancel(tasks[i])]
            /\ UNCHANGED <<results, collected>>
       ELSE /\ results' = Append(results, tasks[Len(results) + 1].result[1])
            /\ collected' = Append(collected, Len(results) + 1)
            /\ pc' = IF Len(results) + 1 = NumEntries THEN "write" ELSE "collect"
            /\ UNCHANGED tasks
    /\ UNCHANGED <<prog, parseVars, max_workers, completion, report, live_links,
                   progress>>

\* the with block is left on an exception: it waits for the workers, then the
\* exception leaves main
Unwind ==
    /\ pc = "unwinding"
    /\ \A i \in 1..Len(tasks) : tasks[i].state \in {"finished", "cancelled"}
    /\ pc' = "crashed"
    /\ UNCHANGED <<prog, parseVars, max_workers, tasks, completion, results,
                   collected, report, live_links, progress>>

\* lines 89-92 without the branch that writes the referer back
url_line_written_without_referer(url, ref) == url

\* hls_checker_pro.py lines 89-92: the line written for a live entry
url_line_written(url, ref) == IF ref # <<>> THEN url \o <<REFERER>> \o ref ELSE url

\* hls_checker_pro.py lines 54-59 and 86-92: the lines of live_links.m3u
RECURSIVE live_lines(_)
live_lines(rs) ==
    IF rs = <<>> THEN <<>>
    ELSE IF ~Head(rs).ok THEN live_lines(Tail(rs))
    ELSE (IF Truthy(Head(rs).info) THEN <<Head(rs).info>> ELSE <<>>)
         \o <<url_line_written(Head(rs).url, Head(rs).referer)>>
         \o live_lines(Tail(rs))

\* the files written from inside the loop that collects the results
WriteFilesEarly ==
    /\ pc \in {"collect", "write"}
    /\ report' = Written(results)
    /\ live_links' =
            IF prog = "hls_checker_pro" THEN Written(live_lines(results))
            ELSE live_links
    /\ pc' = "done"
    /\ UNCHANGED <<prog, parseVars, max_workers, tasks, completion, results,
                   collected, progress>>

\* check_m3u.py lines 152-166, hls_checker_pro.py lines 46-92
WriteFiles ==
    /\ pc = "write"
    /\ report' = Written(results)
    /\ live_links' =
            IF prog = "hls_checker_pro" THEN Written(live_lines(results))
            ELSE live_links
    /\ pc' = "done"
    /\ UNCHANGED <<prog, parseVars, max_workers, tasks, completion, results,
                   collected, progress>>

(***************************************************************************)
(* The runs.                                                               *)
(***************************************************************************)
\* max_workers of hls_checker_pro.py
HlsWorkers == 10

RunInit ==
    /\ prog \in Progs
    /\ ParserStart
    /\ MainStart
    /\ max_workers \in IF prog = "check_m3u" THEN 1..MaxWorkers ELSE {HlsWorkers}

\* the lines of the playlists of the runs over several entries: those
\* check_m3u.py is run on, and those hls_checker_pro.py is run on
RunLines == {UrlReferer, UrlWideReferer, UrlNoHost, ExtinfPlain}
HlsRunLines == {UrlPlain, UrlReferer, UrlTwoReferers, UrlNoHost, ExtinfPlain}

RECURSIVE SeqsUpTo(_, _)
SeqsUpTo(S, n) ==
    IF n = 0 THEN {<<>>}
    ELSE SeqsUpTo(S, n - 1) \cup
         {Append(q, x) : q \in {r \in SeqsUpTo(S, n - 1) : Len(r) = n - 1}, x \in S}

RunPlaylists == SeqsUpTo(RunLines, MaxRunLines)
HlsRunPlaylists == SeqsUpTo(HlsRunLines, MaxRunLines)

\* what the request for the playlist may give
FetchOutcomes == {FetchRaised} \cup {Fetched(code) : code \in PlaylistStatuses}

Next ==
    \/ \E content \in RunPlaylists : M3uFetchPlaylist(content)
    \/ \E content \in HlsRunPlaylists, code \in PlaylistStatuses :
            HlsFetchPlaylist(content, code)
    \/ \E outcome \in FetchOutcomes : FetchFails(outcome)
    \/ Submit
    \/ \E i \in 1..MaxRunLines : StartProbe(i)
    \/ \E i \in 1..MaxRunLines : Respond(i, RunResponses)
    \/ \E i \in 1..MaxRunLines : ReadBody(i)
    \/ \E i \in 1..MaxRunLines : CollectCompleted(i)
    \/ CollectInOrder
    \/ Unwind
    \/ WriteFiles

Spec == RunInit /\ [][Next]_vars

\* what the scheduling gives: the main thread and every worker thread go on
\* running, a request ends within its timeout (with a response or an exception),
\* and a read of a body goes on as long as the server sends
Fairness ==
    /\ WF_vars((\E content \in RunPlaylists : M3uFetchPlaylist(content))
                \/ (\E content \in HlsRunPlaylists, code \in PlaylistStatuses :
                        HlsFetchPlaylist(content, code))
                \/ (\E outcome \in FetchOutcomes : FetchFails(outcome)))
    /\ WF_vars(Submit)
    /\ WF_vars(CollectInOrder)
    /\ WF_vars(Unwind)
    /\ WF_vars(WriteFiles)
    /\ \A i \in 1..MaxRunLines :
        /\ WF_vars(StartProbe(i))
        /\ WF_vars(Respond(i, RunResponses))
        /\ WF_vars(ReadBody(i))
        /\ WF_vars(CollectCompleted(i))

FairSpec == Spec /\ Fairness

(***************************************************************************)
(* The runs over one entry, with every line and every response of the      *)
(* model.                                                                  *)
(***************************************************************************)
UrlLines == ValidUrlLines \cup InvalidUrlLines

ProbePlaylists ==
    {<<u>> : u \in UrlLines} \cup {<<ExtinfFull, u>> : u \in UrlLines}

ProbeNext ==
    \/ \E content \in ProbePlaylists : M3uFetchPlaylist(content)
    \/ \E content \in ProbePlaylists, code \in PlaylistStatuses :
            HlsFetchPlaylist(content, code)
    \/ \E outcome \in FetchOutcomes : FetchFails(outcome)
    \/ Submit
    \/ StartProbe(1)
    \/ Respond(1, Responses)
    \/ ReadBody(1)
    \/ CollectCompleted(1)
    \/ CollectInOrder
    \/ Unwind
    \/ WriteFiles

ProbeSpec == RunInit /\ [][ProbeNext]_vars

(***************************************************************************)
(* The properties.                                                         *)
(***************************************************************************)
\* the number of lines of text that are in the set S
RECURSIVE NumIn(_, _)
NumIn(text, S) ==
    IF text = <<>> THEN 0
    ELSE (IF Head(text) \in S THEN 1 ELSE 0) + NumIn(Tail(text), S)

\* the URL the entry of task i stands for
EntryUrl(i) == IF prog = "check_m3u" THEN streams[i].url ELSE stream_url(entries[i].url)

\* the URL a collected result is about
ResultUrl(r) == r.url

\* C1: whatever the order in which the probes complete, no entry has two results
\* among those collected, each collected result is the one its entry's probe
\* returned, and when the collection ends (the files are about to be written or
\* are written) there is exactly one result for each of the N entries.
C1_ExactlyOneResultEach ==
    /\ Len(results) = Len(collected)
    /\ \A k \in 1..Len(collected) :
        /\ collected[k] \in 1..NumEntries
        /\ \A l \in 1..Len(collected) : k # l => collected[k] # collected[l]
        /\ tasks[collected[k]].result = <<results[k]>>
        /\ ResultUrl(results[k]) = EntryUrl(collected[k])
    /\ pc \in {"write", "done"} /\ NumEntries > 0 =>
        /\ Len(results) = NumEntries
        /\ {collected[k] : k \in 1..Len(collected)} = 1..NumEntries

\* C1, its case: a pool smaller than the number of entries, and the results
\* collected in another order than the entries
C1_Witness ==
    /\ pc = "done"
    /\ NumEntries > max_workers
    /\ Len(results) = NumEntries
    /\ collected[1] # 1

\* C2: no probe raises to its caller, and so no run is ended by a probe.
C2_ProbeNeverRaises ==
    /\ \A i \in 1..Len(tasks) : tasks[i].raised = ""
    /\ pc \notin {"unwinding", "crashed"}

\* C3: at any moment the probes in flight are at most max_workers.
C3_InFlightBounded == Cardinality(InFlight) <= max_workers

\* C3, its case: more entries than workers, every worker busy, an entry waiting
C3_Witness ==
    /\ Cardinality(InFlight) = max_workers
    /\ \E i \in 1..Len(tasks) : tasks[i].state = "pending"

\* C4: parse_m3u has emitted as many entries as it has read valid URL lines, and
\* logged as many warnings as it has read invalid URL lines, whatever other lines
\* lie between them.
C4_EntriesAndWarnings ==
    prog = "check_m3u" =>
        /\ Len(streams) = NumIn(input, ValidUrlLines)
        /\ Len(warnings) = NumIn(input, InvalidUrlLines)

\* C4, its case: a valid and an invalid URL line with a metadata line between
C4_Witness ==
    /\ prog = "check_m3u"
    /\ Len(input) = 3
    /\ input[1] \in InvalidUrlLines
    /\ input[2] \in OtherLines
    /\ input[3] \in ValidUrlLines
    /\ Len(streams) = 1
    /\ Len(warnings) = 1

\* C5: every entry that a probe was started on has a URL with a scheme and a host.
C5_ProbedUrlsValid ==
    \A i \in 1..Len(tasks) :
        tasks[i].state \notin {"pending", "cancelled"} =>
            UrlScheme(EntryUrl(i)) # <<>> /\ UrlNetloc(EntryUrl(i)) # <<>>

\* the probes of check_url that have returned a result
Returned ==
    {i \in 1..Len(tasks) :
        prog = "check_m3u" /\ tasks[i].state = "finished" /\ tasks[i].result # <<>>}

\* the probes of check_url that got a 200 response and read its body to the end
ReturnedLive ==
    {i \in Returned :
        /\ tasks[i].response.kind = "response"
        /\ tasks[i].response.status_code = 200
        /\ tasks[i].response.ending = "eof"}

\* the Content-Type headers that are, in whatever letter case, one of the two
\* playlist types check_url knows, and nothing else
PlaylistTypeHeaders ==
    {"application/vnd.apple.mpegurl", "application/x-mpegurl", "Application/X-MPEGURL"}

\* the bodies whose first characters are #EXTM3U
BodiesWithMagic ==
    {BodyOneSegment, BodyNoSegment, BodyLateSegment, BodyTsx, BodyThreeSegments}

\* the occurrences of .ts, followed by a word boundary, in the first 1024
\* characters of a body
TsInPrefix(body) ==
    CASE body = BodyOneSegment -> 1
      [] body = BodyNoMagic -> 1
      [] body = BodyLeadingBlank -> 1
      [] body = BodyThreeSegments -> 2
      [] OTHER -> 0

\* the response of task i is that of a playlist
LooksLikePlaylist(i) ==
    \/ tasks[i].response.content_type \in PlaylistTypeHeaders
    \/ tasks[i].response.body \in BodiesWithMagic

\* the status of the result of task i
StatusOf(i) == tasks[i].result[1].status

\* C6 as stated: a 200 response is a playlist iff its content-type is a known
\* playlist type or its body prefix starts with #EXTM3U; a playlist with n > 0
\* occurrences of .ts is Live with segment count n, one with none is
\* LiveNoSegments, and a non-playlist is LiveNotPlaylist with no segment count.
C6_AsStated ==
    \A i \in ReturnedLive :
        IF LooksLikePlaylist(i) /\ TsInPrefix(tasks[i].response.body) > 0
        THEN /\ StatusOf(i).label = "Live"
             /\ StatusOf(i).segments = <<TsInPrefix(tasks[i].response.body)>>
        ELSE IF LooksLikePlaylist(i)
        THEN StatusOf(i).label = "Live (No segments)"
        ELSE /\ StatusOf(i).label = "Live (Not M3U8)"
             /\ StatusOf(i).segments = <<>>

\* C6 as amended: as stated, but the segment count of a non-playlist (and of a
\* playlist without segments) is 0, not absent.
C6_Classification ==
    \A i \in ReturnedLive :
        IF LooksLikePlaylist(i) /\ TsInPrefix(tasks[i].response.body) > 0
        THEN /\ StatusOf(i).label = "Live"
             /\ StatusOf(i).segments = <<TsInPrefix(tasks[i].response.body)>>
        ELSE IF LooksLikePlaylist(i)
        THEN /\ StatusOf(i).label = "Live (No segments)"
             /\ StatusOf(i).segments = <<0>>
        ELSE /\ StatusOf(i).label = "Live (Not M3U8)"
             /\ StatusOf(i).segments = <<0>>

\* C6, its case: a 200 response that is no playlist, by its type or by its body
C6_Witness ==
    \E i \in ReturnedLive :
        /\ tasks[i].response.content_type = "text/html"
        /\ tasks[i].response.body = BodyNoMagic
        /\ StatusOf(i).label = "Live (Not M3U8)"
        /\ StatusOf(i).segments = <<0>>

\* the probe of task i ended on an exception of the transport: requests.get
\* raised, or the read of the body did
EndedOnException(i) ==
    \/ tasks[i].response.kind = "RequestException"
    \/ /\ tasks[i].response.kind = "response"
       /\ tasks[i].response.status_code = 200
       /\ tasks[i].response.ending = "error"

\* C7: a result has an error detail iff its probe ended on a transport exception;
\* then its status is Down, whatever the body was.  A response with a status
\* other than 200 gives Down with that status and no error detail.
C7_ErrorDetail ==
    \A i \in Returned :
        /\ tasks[i].result[1].error # NoError <=> EndedOnException(i)
        /\ EndedOnException(i) =>
            StatusOf(i) = [label |-> "Down", http |-> <<>>, segments |-> <<>>]
        /\ (tasks[i].response.kind = "response" /\ tasks[i].response.status_code # 200) =>
            /\ StatusOf(i).label = "Down"
            /\ StatusOf(i).http = <<tasks[i].response.status_code>>
            /\ tasks[i].result[1].error = NoError

\* C7, its case: the read of a body that holds a whole playlist times out
C7_Witness ==
    \E i \in Returned :
        /\ tasks[i].response.status_code = 200
        /\ tasks[i].response.ending = "error"
        /\ tasks[i].response.body = BodyOneSegment
        /\ StatusOf(i).label = "Down"
        /\ tasks[i].result[1].error # NoError

\* C8: no probe takes more than the first 1024 bytes of a body from the transport.
C8_ReadsAtMostPrefix == \A i \in 1..Len(tasks) : tasks[i].consumed <= PrefixLen

\* C9: once the entries are dispatched, the run ends with a result collected for
\* each of them, whatever the servers do.
C9_RunCompletes ==
    (pc = "submit") ~> (pc = "done" /\ Len(results) = NumEntries)

\* a run of hls_checker_pro.py over one entry has ended, and its stream was live
OneLiveEntry ==
    /\ prog = "hls_checker_pro"
    /\ pc = "done"
    /\ Len(results) = 1
    /\ results[1].ok

\* the URL line of the playlist, without the blanks around it
OriginalUrlLine == strip(input[Len(input)])

\* the URL line written to live_links.m3u (the last one)
WrittenUrlLine == live_links[1][Len(live_links[1])]

\* C10 as stated: the line written for a live entry is its original URL line, with
\* its |Referer= suffix when it has one.
C10_AsStated == OneLiveEntry => WrittenUrlLine = OriginalUrlLine

\* C10 as amended: the line written is the original URL, followed by |Referer= and
\* the referer without the blanks around it when that is not empty; it is the
\* original URL line when that has no |Referer=, or has one that a non-blank
\* character follows.
C10_RoundTrip ==
    OneLiveEntry =>
        IF ~Contains(OriginalUrlLine, REFERER)
        THEN WrittenUrlLine = OriginalUrlLine
        ELSE LET url == SplitOnce(OriginalUrlLine, REFERER)[1]
                 suffix == SplitOnce(OriginalUrlLine, REFERER)[2]
             IN /\ WrittenUrlLine =
                      IF strip(suffix) = <<>> THEN url
                      ELSE url \o <<REFERER>> \o strip(suffix)
                /\ (suffix # <<>> /\ ~IsSpace(Head(suffix))) =>
                      WrittenUrlLine = OriginalUrlLine

\* C10, its case: a live entry with a referer, written back as it was read
C10_Witness ==
    /\ OneLiveEntry
    /\ Contains(OriginalUrlLine, REFERER)
    /\ WrittenUrlLine = OriginalUrlLine

\* the request for the playlist failed: it raised, or its status is not 200
PlaylistFetchFailed ==
    \/ playlist.kind = "RequestException"
    \/ (playlist.kind = "response" /\ playlist.status_code # 200)

\* C11: when the request for the playlist fails (it raises, or its status is not
\* 200) the run is aborted with no probe started and no file written; and when
\* the playlist was fetched, nothing about an entry ends the run early.
C11_OnlyFetchFailureIsFatal ==
    /\ PlaylistFetchFailed =>
        /\ pc = "aborted"
        /\ tasks = <<>>
        /\ report = NotWritten
        /\ live_links = NotWritten
    /\ playlist = Fetched(200) => pc \notin {"aborted", "unwinding", "crashed"}

\* the line read last, without the blanks around it
LastLine == strip(input[Len(input)])

\* the text after the last comma of a line, "Unknown" when it has no comma
TextAfterLastComma(line) ==
    IF Contains(line, ",")
    THEN LET last == CHOOSE i \in 1..Len(line) :
                        line[i] = "," /\ \A j \in (i + 1)..Len(line) : line[j] # ","
         IN strip(SubSeq(line, last + 1, Len(line)))
    ELSE <<"Unknown">>

\* the value of the tvg-logo attribute of a metadata line, "N/A" when it has none
LogoOf(line) == IF line = ExtinfFull THEN <<"l">> ELSE <<"N/A">>

\* the value of the group-title attribute of a metadata line, "N/A" when it has
\* none
GroupOf(line) ==
    CASE line = ExtinfFull -> <<"G">>
      [] line = ExtinfCommaGroup -> <<"A", ",", "B">>
      [] OTHER -> <<"N/A">>

\* C12: after every #EXTINF: line the pending name is the text after the last
\* comma of the line ("Unknown" when there is none), the pending logo and group
\* are the values of its tvg-logo and group-title attributes ("N/A" when absent),
\* also when an attribute value holds a comma.
C12_NameAfterLastComma ==
    (prog = "check_m3u" /\ input # <<>> /\ StartsWithExtinfColon(LastLine)) =>
        /\ current_stream.name = TextAfterLastComma(LastLine)
        /\ current_stream.logo = LogoOf(LastLine)
        /\ current_stream.group = GroupOf(LastLine)

\* the two markers of a URL line
Markers == {REFERER, USER_AGENT}

\* a text up to its first marker, or its end
RECURSIVE UpToMarker(_)
UpToMarker(s) ==
    IF s = <<>> \/ Head(s) \in Markers THEN <<>>
    ELSE <<Head(s)>> \o UpToMarker(Tail(s))

\* what follows the first occurrence of a marker, up to the next marker or the end
ValueOf(line, marker) == UpToMarker(SplitOnce(line, marker)[2])

\* C13: of a URL line that holds |Referer=, the entry's url is what precedes the
\* first marker, its referer what follows |Referer= up to the next marker or the
\* end of the line, and its user agent what follows |User-Agent= in the same way,
\* in whichever order the markers come; no extracted value holds a marker.
C13_MarkersSplit ==
    (input # <<>> /\ input[Len(input)] \in ValidUrlLines
        /\ Contains(LastLine, REFERER)) =>
        IF prog = "check_m3u"
        THEN LET entry == streams[Len(streams)] IN
             /\ entry.url = UpToMarker(LastLine)
             /\ entry.referer = ValueOf(LastLine, REFERER)
             /\ entry.user_agent =
                    IF Contains(LastLine, USER_AGENT)
                    THEN ValueOf(LastLine, USER_AGENT) ELSE None
             /\ \A m \in Markers :
                    ~Contains(entry.referer, m) /\ ~Contains(entry.user_agent, m)
        ELSE LET entry == entries[Len(entries)] IN
             /\ ~split_raises(entry.url)
             /\ stream_url(entry.url) = UpToMarker(LastLine)
             /\ referer_of(stream_headers(entry.url)) =
                    strip(ValueOf(LastLine, REFERER))

\* the place in text of its n-th line that is in S (there are n such lines)
RECURSIVE PositionOf(_, _, _)
PositionOf(text, S, n) ==
    IF Head(text) \in S /\ n = 1 THEN 1
    ELSE 1 + PositionOf(Tail(text), S, IF Head(text) \in S THEN n - 1 ELSE n)

\* the place in the input of the URL line that entry i of parse_m3u came from
LineOfEntry(i) == PositionOf(input, ValidUrlLines, i)

\* the line at place j is the first of the input or comes right after a URL line
NoMetadataBefore(j) == j = 1 \/ input[j - 1] \in UrlLines

\* the name, logo and group of an entry, read as check_url reads them
Labels(stream) ==
    [name |-> Get(stream.name, <<"Unknown">>),
     logo |-> Get(stream.logo, <<"N/A">>),
     group |-> Get(stream.group, <<"N/A">>)]

DefaultLabels == [name |-> <<"Unknown">>, logo |-> <<"N/A">>, group |-> <<"N/A">>]

\* C14: a valid URL line at the start of the input or right after another URL
\* line gives an entry all the same, and the entry and the result of its probe
\* have the name "Unknown" and the logo and group "N/A".
C14_DefaultsWithoutMetadata ==
    prog = "check_m3u" =>
        /\ Len(streams) = NumIn(input, ValidUrlLines)
        /\ \A i \in 1..Len(streams) :
            NoMetadataBefore(LineOfEntry(i)) =>
                /\ Labels(streams[i]) = DefaultLabels
                /\ \A k \in 1..Len(results) :
                    collected[k] = i =>
                        /\ results[k].channel = <<"Unknown">>
                        /\ results[k].logo = <<"N/A">>
                        /\ results[k].group = <<"N/A">>

\* C14, its case: two URL lines and no metadata line, both probed
C14_Witness ==
    /\ prog = "check_m3u"
    /\ pc = "done"
    /\ Len(input) = 2
    /\ input[1] \in ValidUrlLines
    /\ input[2] \in ValidUrlLines
    /\ Len(results) = 2
    /\ \A k \in 1..2 : results[k].channel = <<"Unknown">>

\* the places before j of the #EXTINF: lines that no URL line separates from j
PendingMetadata(j) ==
    {m \in 1..(j - 1) :
        /\ StartsWithExtinfColon(strip(input[m]))
        /\ \A l \in (m + 1)..(j - 1) : input[l] \notin UrlLines}

\* the last of them
MostRecent(places) == CHOOSE m \in places : \A l \in places : l <= m

\* C15: the pending metadata is empty after every URL line, valid or not, and
\* the name, logo and group of every emitted entry are those of the most recent
\* #EXTINF: line since the URL line before its own, none when there is no such
\* line (so that a later line changes no emitted entry).
C15_MetadataOfOwnLine ==
    prog = "check_m3u" =>
        /\ (input # <<>> /\ input[Len(input)] \in UrlLines) =>
                current_stream = EmptyStream
        /\ Len(streams) = NumIn(input, ValidUrlLines)
        /\ \A i \in 1..Len(streams) :
            LET own == PendingMetadata(LineOfEntry(i))
                metadata ==
                    IF own = {} THEN EmptyStream
                    ELSE extinf_line(EmptyStream, strip(input[MostRecent(own)]))
            IN /\ streams[i].name = metadata.name
               /\ streams[i].logo = metadata.logo
               /\ streams[i].group = metadata.group

\* C16: the i of the "Checked i/n" lines goes up by one from 1, each line is
\* logged when exactly i results have been collected, and a run that collects
\* all its results has logged each of 1..n once, whatever the order in which
\* the probes complete.
C16_ProgressSerialized ==
    prog = "check_m3u" =>
        /\ Len(progress) = Len(results)
        /\ \A k \in 1..Len(progress) : progress[k] = k
        /\ (pc \in {"write", "done"} /\ NumEntries > 0) =>
                /\ Len(progress) = NumEntries
                /\ {progress[k] : k \in 1..Len(progress)} = 1..NumEntries

\* C16, its case: two probes run at the same time and the second completes first
C16_Witness ==
    /\ prog = "check_m3u"
    /\ pc = "done"
    /\ max_workers = 2
    /\ completion = <<2, 1>>
    /\ collected = <<2, 1>>
    /\ progress = <<1, 2>>

\* a blank line, or a line that starts with # and not with #EXTINF
Ignorable(raw) ==
    \/ strip(raw) = <<>>
    \/ (StartsWithHash(strip(raw)) /\ ~StartsWithExtinf(strip(raw)))

\* a text without its ignorable lines
RECURSIVE WithoutIgnorable(_)
WithoutIgnorable(text) ==
    IF text = <<>> THEN <<>>
    ELSE (IF Ignorable(Head(text)) THEN <<>> ELSE <<Head(text)>>)
         \o WithoutIgnorable(Tail(text))

\* C17: blank lines and lines that start with # without being #EXTINF lines
\* change nothing: after every line read, the emitted entries and the pending
\* metadata are those of the same text with all such lines taken out.
C17_IgnoredLinesChangeNothing ==
    IF prog = "check_m3u"
    THEN /\ streams = parse_m3u(WithoutIgnorable(input)).streams
         /\ current_stream = parse_m3u(WithoutIgnorable(input)).current_stream
    ELSE /\ entries = fetch_playlist(WithoutIgnorable(input)).entries
         /\ current_info = fetch_playlist(WithoutIgnorable(input)).current_info

\* C17, its case: a # line between a metadata line and its URL line
C17_Witness ==
    /\ prog = "check_m3u"
    /\ input = <<ExtinfPlain, Header, UrlPlain>>
    /\ Len(streams) = 1
    /\ streams[1].name = <<"X">>

\* the referer and the user agent of the entry of task i: for hls_checker_pro.py,
\* whose entry is the URL line, what the line gives for them
EntryReferer(i) ==
    IF prog = "check_m3u" THEN streams[i].referer
    ELSE IF Contains(entries[i].url, REFERER)
    THEN strip(ValueOf(entries[i].url, REFERER)) ELSE None
EntryUserAgent(i) ==
    IF prog = "check_m3u" THEN streams[i].user_agent
    ELSE IF Contains(entries[i].url, USER_AGENT)
    THEN strip(ValueOf(entries[i].url, USER_AGENT)) ELSE None

\* C18: the headers of the request of every probe hold the entry's user agent
\* as User-Agent when it has one and the default browser-like one when not, and
\* hold a Referer, the entry's, iff the entry has one.
C18_HeadersBuilt ==
    \A i \in 1..Len(tasks) :
        (tasks[i].state \notin {"pending", "cancelled"} /\ tasks[i].raised = "") =>
            LET headers == RequestHeaders(i) IN
            /\ "User-Agent" \in DOMAIN headers
            /\ headers["User-Agent"] =
                    IF Truthy(EntryUserAgent(i)) THEN EntryUserAgent(i)
                    ELSE DefaultHeaders["User-Agent"]
            /\ "Referer" \in DOMAIN headers <=> Truthy(EntryReferer(i))
            /\ "Referer" \in DOMAIN headers => headers["Referer"] = EntryReferer(i)

\* C19: nothing is written before every probe has returned: when main is at its
\* write step, and whenever a file has been written, there is a task for every
\* entry, every task has returned its result and every result is collected.
C19_WriteAfterAllReturned ==
    (pc = "write" \/ report # NotWritten \/ live_links # NotWritten) =>
        /\ Len(tasks) = NumEntries
        /\ \A i \in 1..Len(tasks) :
            tasks[i].state = "finished" /\ tasks[i].result # <<>>
        /\ Len(results) = NumEntries

\* C19, its case: the probes return one after the other, then the report is
\* written
C19_Witness ==
    /\ report # NotWritten
    /\ max_workers = 1
    /\ NumEntries = 2
    /\ Len(report[1]) = 2

\* the lines that fetch_playlist makes an entry of
HlsEntryLines == {raw \in Lines : StartsWithHttp(strip(raw))}

\* the #EXTINF line that precedes the line at place j with no entry between
\* them, None when there is none
InfoBefore(j) ==
    LET own == {m \in 1..(j - 1) :
                    /\ StartsWithExtinf(strip(input[m]))
                    /\ \A l \in (m + 1)..(j - 1) : input[l] \notin HlsEntryLines}
    IN IF own = {} THEN None ELSE strip(input[MostRecent(own)])

\* the lines of live_links.m3u for the entries from the i-th on: those of the
\* entries whose probe found them live
RECURSIVE LiveFrom(_)
LiveFrom(i) ==
    IF i > NumEntries THEN <<>>
    ELSE (IF tasks[i].result[1].ok
          THEN (IF entries[i].info # None THEN <<entries[i].info>> ELSE <<>>)
               \o <<url_line_written(stream_url(entries[i].url),
                                     referer_of(stream_headers(entries[i].url)))>>
          ELSE <<>>)
         \o LiveFrom(i + 1)

\* C20: in hls_checker_pro.py, when the results are in, result i is that of
\* entry i whatever the order in which the probes completed, and live_links.m3u
\* lists the live entries in the order of the playlist, each after the #EXTINF
\* line that preceded it in the input.
C20_PlaylistOrder ==
    (prog = "hls_checker_pro" /\ pc \in {"write", "done"}) =>
        /\ Len(results) = NumEntries
        /\ \A i \in 1..NumEntries :
            /\ collected[i] = i
            /\ results[i] = tasks[i].result[1]
            /\ results[i].url = stream_url(entries[i].url)
            /\ results[i].info = InfoBefore(PositionOf(input, HlsEntryLines, i))
        /\ pc = "done" => live_links = Written(LiveFrom(1))

\* C20, its case: two live entries, the probe of the second completes first
C20_Witness ==
    /\ prog = "hls_checker_pro"
    /\ pc = "done"
    /\ input = <<UrlPlain, UrlReferer>>
    /\ completion = <<2, 1>>
    /\ live_links = Written(<<UrlPlain, UrlReferer>>)

=============================================================================
